---- MODULE Spec2Model ----
(***************************************************************************)
(* A model of src/app.py: the generator stream_wrapper, the generator      *)
(* extract_assistant_text, and the two page handlers that store a          *)
(* response in the session and render it again on every page re-execution. *)
(***************************************************************************)
EXTENDS Integers, Sequences, FiniteSets, TLC

\* ------------------------------------------------------------------ bounds
MaxEvents == 3      \* longest source of events
MaxItems == 3       \* longest content list of a non-streamed response
MaxReruns == 2      \* page re-executions after a streamed response
MaxReIter == 1      \* next() calls made on a generator that already ended

Newline == "\n"
Alphabet == {"a", Newline}

\* the text values of the model: the empty text and the one-character texts
Texts == {<<>>} \cup {<<c>> : c \in Alphabet}

\* ----------------------------------------------------------- Python values
PyNone == [ty |-> "none"]
PyStr(s) == [ty |-> "str", val |-> s]
PyInt(n) == [ty |-> "int", val |-> n]
PyDict(f) == [ty |-> "dict", items |-> f]
PyList(s) == [ty |-> "list", elems |-> s]
PyObj(ref) == [ty |-> "obj", ref |-> ref]

EmptyItems == [k \in {} |-> PyNone]

\* bool(v), as `if x := ...` and `assert (x := ...)` evaluate it
Truthy(v) ==
    CASE v.ty = "none" -> FALSE
      [] v.ty = "str" -> Len(v.val) > 0
      [] v.ty = "int" -> v.val # 0
      [] v.ty = "dict" -> DOMAIN v.items # {}
      [] v.ty = "list" -> Len(v.elems) > 0
      [] OTHER -> TRUE

\* d.get(k)
Get(d, k) == IF k \in DOMAIN d.items THEN d.items[k] ELSE PyNone

\* concatenation of a sequence of str values
RECURSIVE Concat(_)
Concat(frags) ==
    IF frags = <<>> THEN <<>> ELSE Head(frags).val \o Concat(Tail(frags))

\* ------------------------------------------------------------ source events
\* {"contentBlockDelta": {"delta": {"text": t}}}
DeltaEvent(t) ==
    PyDict([contentBlockDelta |-> PyDict([delta |-> PyDict([text |-> PyStr(t)])])])

\* the same record as the remote API sends it, with the block's index beside the delta
IndexedDeltaEvent(t) ==
    PyDict([contentBlockDelta |->
              PyDict([delta |-> PyDict([text |-> PyStr(t)]),
                      contentBlockIndex |-> PyInt(0)])])

ToolUseDeltaEvent ==
    PyDict([contentBlockDelta |->
              PyDict([delta |-> PyDict([toolUse |-> PyDict([input |-> PyStr(<<"a">>)])]),
                      contentBlockIndex |-> PyInt(0)])])

MessageStopEvent == PyDict([messageStop |-> PyDict([stopReason |-> PyStr(<<"a">>)])])
MetadataEvent == PyDict([metadata |-> PyDict([usage |-> PyDict([totalTokens |-> PyInt(1)])])])

TextEvents ==
    {DeltaEvent(t) : t \in Texts} \cup {IndexedDeltaEvent(<<"a">>)}
        \cup {PyStr(t) : t \in Texts}
\* items of other shapes: two marker records, a delta without text, and a
\* value that is neither a mapping nor a str
OtherEvents == {MessageStopEvent, MetadataEvent, ToolUseDeltaEvent, PyNone}
Events == TextEvents \cup OtherEvents

EventLists == UNION {[1..n -> Events] : n \in 0..MaxEvents}

\* ------------------------------------------------- the match statement (122-123)
IsMapping(v) == v.ty = "dict"
HasKey(v, k) == k \in DOMAIN v.items

MatchesDelta(e) ==
    /\ IsMapping(e)
    /\ HasKey(e, "contentBlockDelta")
    /\ IsMapping(e.items["contentBlockDelta"])
    /\ HasKey(e.items["contentBlockDelta"], "delta")
    /\ IsMapping(e.items["contentBlockDelta"].items["delta"])
    /\ HasKey(e.items["contentBlockDelta"].items["delta"], "text")

MatchesStr(e) == e.ty = "str"

\* a match statement without the `| str(text)` alternative
MatchesWithoutStr(e) == MatchesDelta(e)

Matches(e) == MatchesDelta(e) \/ MatchesStr(e)

\* the value the pattern binds to `text`
MatchedText(e) ==
    IF MatchesDelta(e)
    THEN e.items["contentBlockDelta"].items["delta"].items["text"]
    ELSE e

\* ------------------------------------------------------------------ objects
\* An object of the heap: an iterator over events, or a StringIO.
IterObj(items, seek, faulty) ==
    [kind |-> "iter", items |-> items, buf |-> <<>>, pos |-> 0,
     seek |-> seek, faulty |-> faulty]
StringIOObj(buf, faulty) ==
    [kind |-> "stringio", items |-> <<>>, buf |-> buf, pos |-> 0,
     seek |-> "callable", faulty |-> faulty]

\* index of the last character of the line that starts after position pos
LineEnd(buf, pos) ==
    IF \E i \in (pos + 1)..Len(buf) : buf[i] = Newline
    THEN CHOOSE i \in (pos + 1)..Len(buf) :
            /\ buf[i] = Newline
            /\ \A j \in (pos + 1)..(i - 1) : buf[j] # Newline
    ELSE Len(buf)

\* iteration protocol of `for event in stream` (121)
HasNext(o) ==
    IF o.kind = "stringio" THEN o.pos < Len(o.buf) ELSE o.pos < Len(o.items)
NextItem(o) ==
    IF o.kind = "stringio"
    THEN PyStr(SubSeq(o.buf, o.pos + 1, LineEnd(o.buf, o.pos)))
    ELSE o.items[o.pos + 1]
Advance(o) ==
    [o EXCEPT !.pos = IF o.kind = "stringio" THEN LineEnd(o.buf, o.pos) ELSE o.pos + 1]

\* a write that replaces the content instead of extending it
WriteObjReplacing(o, s) == [o EXCEPT !.buf = s, !.pos = Len(s)]

\* write_copy.write(text): writes at the current position (125)
WriteObj(o, s) ==
    [o EXCEPT !.buf = SubSeq(o.buf, 1, o.pos) \o s
                        \o SubSeq(o.buf, o.pos + Len(s) + 1, Len(o.buf)),
              !.pos = o.pos + Len(s)]

\* stream.seek(0) (129) and collector_stream.seek(0) (108)
SeekObj(o) == [o EXCEPT !.pos = 0]

\* the probe without its callable() half
HasSeekAttribute(o) == o.seek # "absent"

\* hasattr(stream, "seek") and callable(stream.seek) (128)
HasCallableSeek(o) == o.seek = "callable"

\* the outcomes a call of a method of the object can have
CallOutcomes(o) == IF o.faulty THEN {"ok", "raises"} ELSE {"ok"}

\* the outcomes of stream.seek(0): calling an attribute that is not callable raises
SeekOutcomes(o) == IF o.seek = "notcallable" THEN {"raises"} ELSE CallOutcomes(o)

\* -------------------------------------------------------------------- state
VARIABLES
    heap,        \* object name -> object: "src" the event source, "sio" the StringIO
    stream,      \* stream_wrapper's argument `stream`: an object name
    write_copy,  \* stream_wrapper's argument `write_copy`: an object name or "None"
    pc,          \* position of the stream_wrapper generator
    event,       \* its local `event`
    text,        \* its local `text`
    out,         \* the fragments the consumer has received, in order
    pulled,      \* the items taken from `stream` so far, in order
    seeks,       \* calls of stream.seek(0) made by the generator
    error,       \* the exception that left the generator, or "none"
    reiter,      \* next() calls made after the generator ended
    response,    \* the response record: extract_assistant_text's argument, and
                 \* st.session_state.response
    ex_pc,       \* position of the extract_assistant_text generator
    idx,         \* index of the content item its loop looks at next
    phase,       \* what the page is doing
    collected,   \* text_response of the streaming handler (line 111)
    rendered     \* per finished re-execution, the fragments its join received

gen == <<stream, write_copy, pc, event, text>>
obs == <<out, pulled, seeks, error, reiter>>
app == <<response, ex_pc, idx, phase, collected, rendered>>
vars == <<heap, stream, write_copy, pc, event, text, out, pulled, seeks, error, reiter,
          response, ex_pc, idx, phase, collected, rendered>>

\* the consumer holds control: the generator is not running
ConsumerHolds == pc \in {"created", "suspended", "done", "raised"}

\* ------------------------------------------------------ stream_wrapper steps
\* next(gen) by the consumer: the generator starts or resumes after its yield
ConsumerNext ==
    /\ pc \in {"created", "suspended"}
    /\ pc' = "pull"
    /\ UNCHANGED <<heap, stream, write_copy, event, text, obs, app>>

\* a wrapper that starts over when iterated again after its end
ReIterateRestarts ==
    /\ pc \in {"done", "raised"}
    /\ reiter < MaxReIter
    /\ reiter' = reiter + 1
    /\ pc' = "pull"
    /\ UNCHANGED <<heap, stream, write_copy, event, text, out, pulled, seeks, error, app>>

\* next(gen) on a generator that returned or raised: StopIteration, nothing runs
ReIterate ==
    /\ pc \in {"done", "raised"}
    /\ reiter < MaxReIter
    /\ reiter' = reiter + 1
    /\ UNCHANGED <<heap, gen, out, pulled, seeks, error, app>>

\* line 121: take the next item of the source, or leave the loop
PullEvent ==
    /\ pc = "pull"
    /\ IF HasNext(heap[stream])
       THEN /\ event' = NextItem(heap[stream])
            /\ heap' = [heap EXCEPT ![stream] = Advance(heap[stream])]
            /\ pulled' = Append(pulled, NextItem(heap[stream]))
            /\ pc' = "match"
       ELSE /\ pc' = "rewind"
            /\ UNCHANGED <<heap, event, pulled>>
    /\ UNCHANGED <<stream, write_copy, text, out, seeks, error, reiter, app>>

\* a lookup event["contentBlockDelta"]["delta"]["text"] in place of the match
\* statement: an event of another shape raises
MatchEventByLookup ==
    /\ pc = "match"
    /\ IF Matches(event)
       THEN /\ text' = MatchedText(event)
            /\ pc' = "write"
            /\ UNCHANGED error
       ELSE /\ pc' = "raised"
            /\ error' = "lookup"
            /\ UNCHANGED text
    /\ UNCHANGED <<heap, stream, write_copy, event, out, pulled, seeks, reiter, app>>

\* lines 122-123: the match statement
MatchEvent ==
    /\ pc = "match"
    /\ IF Matches(event)
       THEN /\ text' = MatchedText(event)
            /\ pc' = "write"
       ELSE /\ pc' = "pull"
            /\ UNCHANGED text
    /\ UNCHANGED <<heap, stream, write_copy, event, obs, app>>

\* a write whose failure is recorded and then passed over
WriteCopyKeepsGoing ==
    /\ pc = "write"
    /\ IF write_copy # "None"
       THEN \E outcome \in CallOutcomes(heap[write_copy]) :
              IF outcome = "ok"
              THEN /\ heap' = [heap EXCEPT ![write_copy] = WriteObj(heap[write_copy], text.val)]
                   /\ pc' = "yield"
                   /\ UNCHANGED error
              ELSE /\ pc' = "yield"
                   /\ error' = "write"
                   /\ UNCHANGED heap
       ELSE /\ pc' = "yield"
            /\ UNCHANGED <<heap, error>>
    /\ UNCHANGED <<stream, write_copy, event, text, out, pulled, seeks, reiter, app>>

\* lines 124-125: copy the text to the sink, when there is one
WriteCopy ==
    /\ pc = "write"
    /\ IF write_copy # "None"
       THEN \E outcome \in CallOutcomes(heap[write_copy]) :
              IF outcome = "ok"
              THEN /\ heap' = [heap EXCEPT ![write_copy] = WriteObj(heap[write_copy], text.val)]
                   /\ pc' = "yield"
                   /\ UNCHANGED error
              ELSE /\ pc' = "raised"
                   /\ error' = "write"
                   /\ UNCHANGED heap
       ELSE /\ pc' = "yield"
            /\ UNCHANGED <<heap, error>>
    /\ UNCHANGED <<stream, write_copy, event, text, out, pulled, seeks, reiter, app>>

\* a yield that reads the next source item ahead of the consumer's request
YieldTextReadsAhead ==
    /\ pc = "yield"
    /\ out' = Append(out, text)
    /\ pc' = "suspended"
    /\ IF HasNext(heap[stream])
       THEN /\ heap' = [heap EXCEPT ![stream] = Advance(heap[stream])]
            /\ pulled' = Append(pulled, NextItem(heap[stream]))
       ELSE UNCHANGED <<heap, pulled>>
    /\ UNCHANGED <<stream, write_copy, event, text, seeks, error, reiter, app>>

\* line 126: yield text
YieldText ==
    /\ pc = "yield"
    /\ out' = Append(out, text)
    /\ pc' = "suspended"
    /\ UNCHANGED <<heap, stream, write_copy, event, text, pulled, seeks, error, reiter, app>>

\* a generator that ends without lines 128-129
RewindSkipped ==
    /\ pc = "rewind"
    /\ pc' = "done"
    /\ UNCHANGED <<heap, stream, write_copy, event, text, obs, app>>

\* lines 128-129: rewind the source when it has a callable seek
Rewind ==
    /\ pc = "rewind"
    /\ IF HasCallableSeek(heap[stream])
       THEN \E outcome \in SeekOutcomes(heap[stream]) :
              /\ seeks' = seeks + 1
              /\ IF outcome = "ok"
                 THEN /\ heap' = [heap EXCEPT ![stream] = SeekObj(heap[stream])]
                      /\ pc' = "done"
                      /\ UNCHANGED error
                 ELSE /\ pc' = "raised"
                      /\ error' = "seek"
                      /\ UNCHANGED heap
       ELSE /\ pc' = "done"
            /\ UNCHANGED <<heap, seeks, error>>
    /\ UNCHANGED <<stream, write_copy, event, text, out, pulled, reiter, app>>

GenStep == PullEvent \/ MatchEvent \/ WriteCopy \/ YieldText \/ Rewind

\* --------------------------------------------- stream_wrapper with a consumer
Init ==
    /\ \E items \in EventLists, seek \in {"absent", "notcallable", "callable"} :
         \* any call on the source or on the sink may succeed or raise
         heap = [src |-> IterObj(items, seek, TRUE), sio |-> StringIOObj(<<>>, TRUE)]
    /\ write_copy \in {"None", "sio"}
    /\ stream = "src"
    /\ pc = "created"
    /\ event = PyNone
    /\ text = PyNone
    /\ out = <<>>
    /\ pulled = <<>>
    /\ seeks = 0
    /\ error = "none"
    /\ reiter = 0
    /\ response = PyNone
    /\ ex_pc = "idle"
    /\ idx = 0
    /\ phase = "idle"
    /\ collected = <<>>
    /\ rendered = <<>>

Next == ConsumerNext \/ ReIterate \/ GenStep

Spec == Init /\ [][Next]_vars

\* ------------------------------------------- non-streamed response records
\* items of a content list: a text block, a block without text, an empty block
ContentItems ==
    {PyDict([text |-> PyStr(t)]) : t \in Texts}
        \cup {PyDict([toolUse |-> PyDict([input |-> PyStr(<<"a">>)])]), PyDict(EmptyItems)}

ContentLists == UNION {[1..n -> ContentItems] : n \in 0..MaxItems}

Messages ==
    {PyDict([role |-> PyStr(<<"a">>), content |-> PyList(c)]) : c \in ContentLists}
        \cup {PyDict([role |-> PyStr(<<"a">>)]), PyDict(EmptyItems)}

Outputs == {PyDict([message |-> m]) : m \in Messages} \cup {PyDict(EmptyItems)}

\* what converse() may hand back: a record with or without each link of the path
Responses ==
    {PyDict([output |-> o, stopReason |-> PyStr(<<"a">>)]) : o \in Outputs}
        \cup {PyDict([stopReason |-> PyStr(<<"a">>)])}

\* ------------------------------------------ extract_assistant_text (219-229)
\* the three assert statements of lines 224-226, in order
OutputOf(r) == Get(r, "output")
MessageOf(r) == Get(OutputOf(r), "message")
ContentOf(r) == Get(MessageOf(r), "content")
PathAsserted(r) ==
    /\ Truthy(OutputOf(r))
    /\ Truthy(MessageOf(r))
    /\ Truthy(ContentOf(r))

\* next() on the extract_assistant_text generator: it runs to its next yield,
\* to its end, or to a failing assert
ExtractNext ==
    /\ ex_pc \in {"created", "suspended"}
    /\ IF ex_pc = "created" /\ Truthy(Get(response, "stream"))
       THEN \* lines 220-221: hand over to stream_wrapper(stream), which starts to run
            /\ ex_pc' = "delegating"
            /\ stream' = Get(response, "stream").ref
            /\ write_copy' = "None"
            /\ pc' = "pull"
            /\ event' = PyNone
            /\ text' = PyNone
            /\ out' = <<>>
            /\ pulled' = <<>>
            /\ seeks' = 0
            /\ error' = "none"
            /\ reiter' = 0
            /\ UNCHANGED idx
       ELSE /\ IF ex_pc = "created" /\ ~PathAsserted(response)
               THEN \* one of the asserts of lines 224-226 fails
                    /\ ex_pc' = "raised"
                    /\ error' = "assert"
                    /\ UNCHANGED <<out, idx>>
               ELSE LET i == IF ex_pc = "created" THEN 1 ELSE idx
                        content == ContentOf(response).elems
                    IN  IF i > Len(content)
                        THEN \* the loop of line 227 ends
                             /\ ex_pc' = "done"
                             /\ UNCHANGED <<out, idx, error>>
                        ELSE IF ~Truthy(Get(content[i], "text"))
                        THEN \* the assert of line 228 fails
                             /\ ex_pc' = "raised"
                             /\ error' = "assert"
                             /\ UNCHANGED <<out, idx>>
                        ELSE \* line 229: yield text
                             /\ out' = Append(out, Get(content[i], "text"))
                             /\ idx' = i + 1
                             /\ ex_pc' = "suspended"
                             /\ UNCHANGED error
            /\ UNCHANGED <<gen, pulled, seeks, reiter>>
    /\ UNCHANGED <<heap, response, phase, collected, rendered>>

\* line 222: stream_wrapper ended, so extract_assistant_text returns
ExtractReturn ==
    /\ ex_pc = "delegating"
    /\ pc \in {"done", "raised"}
    /\ ex_pc' = pc
    /\ UNCHANGED <<heap, gen, obs, response, idx, phase, collected, rendered>>

\* -------------------------------- extract_assistant_text on a stored record
InitExtract ==
    /\ response \in Responses
    /\ ex_pc = "created"
    /\ idx = 0
    /\ out = <<>>
    /\ error = "none"
    /\ heap = [src |-> IterObj(<<>>, "absent", FALSE), sio |-> StringIOObj(<<>>, FALSE)]
    /\ stream = "src"
    /\ write_copy = "None"
    /\ pc = "idle"
    /\ event = PyNone
    /\ text = PyNone
    /\ pulled = <<>>
    /\ seeks = 0
    /\ reiter = 0
    /\ phase = "idle"
    /\ collected = <<>>
    /\ rendered = <<>>

NextExtract == ExtractNext

SpecExtract == InitExtract /\ [][NextExtract]_vars

\* --------------------------- the page: a streamed response and its re-renders
\* lines 108-114, after st.write_stream drained the generator: rewind the
\* collector, store it as the response's stream, read its text, re-run the page
FinishStreaming ==
    /\ phase = "streaming"
    /\ pc = "done"
    /\ heap' = [heap EXCEPT !["sio"] = SeekObj(heap["sio"])]
    /\ response' = PyDict([response.items EXCEPT !["stream"] = PyObj("sio")])
    /\ collected' = heap["sio"].buf
    /\ phase' = "stored"
    /\ UNCHANGED <<gen, obs, ex_pc, idx, rendered>>

\* lines 60-68 of a re-execution: the stored response is there, and the join
\* of line 68 is about to iterate extract_assistant_text(response)
RenderStart ==
    /\ phase = "stored"
    /\ Len(rendered) < MaxReruns
    /\ Truthy(response)
    /\ ex_pc' = "created"
    /\ idx' = 0
    /\ phase' = "rendering"
    /\ UNCHANGED <<heap, gen, obs, response, collected, rendered>>

\* line 68: the join has drained the generator and the text is rendered
RenderFinish ==
    /\ phase = "rendering"
    /\ ex_pc = "done"
    /\ rendered' = Append(rendered, out)
    /\ phase' = "stored"
    /\ UNCHANGED <<heap, gen, obs, response, ex_pc, idx, collected>>

\* lines 88-105 have run: the response of converse_stream is stored, and
\* stream_wrapper(response["stream"], collector_stream) is handed to write_stream
InitReplay ==
    /\ \E items \in EventLists :
         heap = [src |-> IterObj(items, "absent", FALSE), sio |-> StringIOObj(<<>>, FALSE)]
    /\ response = PyDict([stream |-> PyObj("src")])
    /\ stream = "src"
    /\ write_copy = "sio"
    /\ pc = "created"
    /\ event = PyNone
    /\ text = PyNone
    /\ out = <<>>
    /\ pulled = <<>>
    /\ seeks = 0
    /\ error = "none"
    /\ reiter = 0
    /\ ex_pc = "idle"
    /\ idx = 0
    /\ phase = "streaming"
    /\ collected = <<>>
    /\ rendered = <<>>

NextReplay ==
    \/ ConsumerNext
    \/ GenStep
    \/ FinishStreaming
    \/ RenderStart
    \/ ExtractNext
    \/ ExtractReturn
    \/ RenderFinish

SpecReplay == InitReplay /\ [][NextReplay]_vars

\* ------------------------------------------------ what the claims speak about
\* An event that is a content-delta record or a bare text value, as the
\* specification's data model lists them (not as the match statement tests them).
IsContentDelta(e) == \E t \in Texts : e = DeltaEvent(t) \/ e = IndexedDeltaEvent(t)
IsBareText(e) == \E t \in Texts : e = PyStr(t)
IsTextBearing(e) == IsContentDelta(e) \/ IsBareText(e)
TextValueOf(e) ==
    PyStr(CHOOSE t \in Texts : e = DeltaEvent(t) \/ e = IndexedDeltaEvent(t) \/ e = PyStr(t))

\* the text values of the text-bearing events of a list, in order
RECURSIVE ExpectedFragments(_)
ExpectedFragments(items) ==
    IF items = <<>> THEN <<>>
    ELSE IF IsTextBearing(Head(items))
         THEN <<TextValueOf(Head(items))>> \o ExpectedFragments(Tail(items))
         ELSE ExpectedFragments(Tail(items))

Front(q) == SubSeq(q, 1, Len(q) - 1)
Last(q) == q[Len(q)]
SourceItems == heap["src"].items
\* the source has a seek method that can be called
SourceRewindable == heap["src"].seek = "callable"
SinkText == heap["sio"].buf

\* ------------------------------------------------------------------ C1
\* C1: when the generator has been drained to its end, every source item has
\* been taken and the consumer has received, in input order, exactly the text
\* values of the content-delta and bare-text events, one per such event, and
\* nothing for any other event.
C1_DrainYieldsTextValues ==
    (pc = "done") =>
        /\ pulled = SourceItems
        /\ out = ExpectedFragments(SourceItems)

C1_Witness ==
    /\ pc = "done"
    /\ Len(SourceItems) = 3
    /\ IsContentDelta(SourceItems[1])
    /\ ~IsTextBearing(SourceItems[2])
    /\ IsBareText(SourceItems[3])
    /\ Len(out) = 2
    /\ out[1] # out[2]

\* ------------------------------------------------------------------ C2
\* C2: with a sink supplied, whenever the consumer holds control (before the
\* first pull, after receiving a fragment, after the end) the sink holds
\* exactly the concatenation of the fragments received so far.
C2_SinkEqualsYielded ==
    (write_copy = "sio" /\ ConsumerHolds) => SinkText = Concat(out)

C2_Witness ==
    /\ write_copy = "sio"
    /\ pc = "done"
    /\ Len(out) = 2
    /\ Len(SinkText) = 2

\* ------------------------------------------------------------------ C5
\* C5: no failure comes from the shape of an event: the generator raises only
\* when the sink's write or the source's seek raised, an event that is not
\* text-bearing changes neither the output nor the sink, and a source made
\* only of such events ends with no fragment.
C5_OnlyCallsRaise ==
    /\ (pc = "raised") <=> (error \in {"write", "seek"})
    /\ error \in {"none", "write", "seek"}
    /\ (pc \in {"done", "raised"} /\ \A i \in 1..Len(SourceItems) : ~IsTextBearing(SourceItems[i]))
          => (out = <<>> /\ SinkText = <<>> /\ pulled = SourceItems /\ error # "write")

C5_Witness ==
    /\ pc = "done"
    /\ SourceItems = <<MetadataEvent, MessageStopEvent>>
    /\ out = <<>>

\* ------------------------------------------------------------------ C6
\* C6: once the generator has ended, iterating it again yields nothing and
\* runs nothing, also when the source was rewound; the seek is called at most
\* once, only after the source is exhausted, and exactly once when the source
\* has a callable seek and the generator returned.
C6_EndedStaysEnded ==
    /\ [](/\ seeks <= 1
          /\ (seeks = 1) => (pc \in {"done", "raised"} /\ pulled = SourceItems
                                /\ SourceRewindable)
          /\ (pc = "done") => (seeks = IF SourceRewindable THEN 1 ELSE 0))
    /\ [][(pc \in {"done", "raised"}) => (pc' = pc /\ out' = out /\ pulled' = pulled
                                            /\ seeks' = seeks /\ heap' = heap)]_vars

C6_Witness ==
    /\ pc = "done"
    /\ reiter >= 1
    /\ seeks = 1
    /\ heap[stream].pos = 0
    /\ Len(out) >= 2

\* ------------------------------------------------------------------ C7
\* C7 as stated: a failure of the source's seek never reaches the consumer.
C7_SeekFailureIgnored == ~(pc = "raised" /\ error = "seek")

\* C7 amended: a source without a callable seek is left alone and the sequence
\* ends normally; a seek that raises leaves the generator as an exception, at
\* the pull that exhausted the source, after every fragment was delivered.
C7_RewindAbsentOrPropagates ==
    /\ (~SourceRewindable)
          => /\ seeks = 0
             /\ error # "seek"
             /\ heap[stream].pos = Len(pulled)
    /\ (error = "seek")
          => /\ pc = "raised"
             /\ seeks = 1
             /\ pulled = SourceItems
             /\ out = ExpectedFragments(SourceItems)
             /\ heap[stream].pos = Len(SourceItems)

C7_Witness ==
    \/ /\ pc = "raised" /\ error = "seek" /\ Len(out) >= 1 /\ reiter = 1
    \/ /\ pc = "done" /\ heap[stream].seek = "notcallable" /\ Len(out) >= 1 /\ reiter = 0

\* ------------------------------------------------------------------ C8
\* C8: when the sink's write raises, the generator ends with that exception:
\* the fragment whose write failed is not delivered, the consumer holds
\* exactly the fragments of the earlier text-bearing events, and from then on
\* no source item is taken and no seek is called.
C8_WriteFailurePropagates ==
    /\ []((error = "write")
            => /\ pc = "raised"
               /\ Len(pulled) >= 1
               /\ IsTextBearing(Last(pulled))
               /\ out = ExpectedFragments(Front(pulled))
               /\ SinkText = Concat(out)
               /\ heap[stream].pos = Len(pulled)
               /\ seeks = 0)
    /\ [][(error = "write") => (pulled' = pulled /\ out' = out /\ seeks' = seeks
                                  /\ heap' = heap)]_vars

C8_Witness ==
    /\ error = "write"
    /\ Len(out) = 1
    /\ Len(pulled) = 2
    /\ Len(SourceItems) = 3
    /\ reiter = 1

\* ------------------------------------------------------------------ C9
\* C9: the generator runs only on the consumer's request and holds at most one
\* fragment: at the yield the text is already in the sink, before the write
\* the sink holds what was delivered, the last source item taken is the one
\* whose fragment was last delivered, and while the consumer holds control no
\* source item is taken and no seek is called.
C9_PullDriven ==
    /\ [](/\ (pc = "yield" /\ write_copy = "sio") => SinkText = Concat(out) \o text.val
          /\ (pc = "write" /\ write_copy = "sio") => SinkText = Concat(out)
          /\ (pc \in {"write", "yield"})
                => ExpectedFragments(pulled) = Append(out, text)
          /\ (pc = "match")
                => (event = Last(pulled) /\ ExpectedFragments(Front(pulled)) = out)
          /\ (pc \in {"created", "suspended", "pull", "rewind", "done"})
                => ExpectedFragments(pulled) = out
          /\ (pc = "suspended")
                => /\ Len(pulled) >= 1
                   /\ IsTextBearing(Last(pulled))
                   /\ Last(out) = TextValueOf(Last(pulled))
                   /\ seeks = 0
          /\ heap["src"].pos = Len(pulled) \/ seeks = 1)
    /\ [][ConsumerHolds => (pulled' = pulled /\ seeks' = seeks /\ heap' = heap
                              /\ out' = out)]_vars

C9_Witness ==
    /\ pc = "suspended"
    /\ write_copy = "sio"
    /\ Len(out) = 1
    /\ Len(pulled) = 2
    /\ Len(SourceItems) = 3
    /\ IsTextBearing(SourceItems[3])

\* ------------------------------------------------------------------ C3
\* a link of the path output -> message -> content -> [{text}] is absent
LinkAbsent(r) ==
    \/ ~HasKey(r, "output")
    \/ ~HasKey(r.items["output"], "message")
    \/ ~HasKey(r.items["output"].items["message"], "content")
    \/ \E i \in 1..Len(r.items["output"].items["message"].items["content"].elems) :
          ~HasKey(r.items["output"].items["message"].items["content"].elems[i], "text")

\* C3: for a record with an absent link, the extraction never ends normally
\* and the caller never receives a text segment from it, not even segments
\* that precede the item lacking its text.
C3_FailureDeliversNothing ==
    LinkAbsent(response) => (ex_pc # "done" /\ out = <<>>)

\* ------------------------------------------------------------------ C4
\* every link of the path is present and every content item has a text field
WellFormed(r) == ~LinkAbsent(r)
TextsOfContent(r) ==
    [i \in 1..Len(r.items["output"].items["message"].items["content"].elems) |->
        r.items["output"].items["message"].items["content"].elems[i].items["text"]]

\* C4: for a record whose path is present and whose content items all carry a
\* text field, the extraction raises no failure and, at its end, has yielded
\* exactly the text values of the content items, in list order.
C4_CompleteRecordExtracts ==
    WellFormed(response) =>
        /\ ex_pc # "raised"
        /\ (ex_pc = "done") => out = TextsOfContent(response)

\* ------------------------------------------------------------------ C10
\* C10: after a streamed response was drained and its stream replaced by the
\* rewound collector, every re-execution's extraction yields fragments whose
\* concatenation is the text collected during the live stream, and the same
\* fragments as the re-execution before it.
C10_ReplayStable ==
    /\ (phase # "streaming") => collected = Concat(ExpectedFragments(SourceItems))
    /\ \A i \in 1..Len(rendered) :
          /\ Concat(rendered[i]) = collected
          /\ (i > 1) => rendered[i] = rendered[i - 1]

C10_Witness ==
    /\ Len(rendered) = 2
    /\ collected = <<"a", Newline, "a">>
    /\ rendered[2] = <<PyStr(<<"a", Newline>>), PyStr(<<"a">>)>>

====
